---- MODULE Spec2Model ----
(***************************************************************************)
(* ThreadingTest.cpp: four "database" classes over one array of counters   *)
(* (no lock, one mutex, one shared_mutex, an array of mutexes), a workload *)
(* of updater and reader threads that walk the array in a shuffled order,  *)
(* and a harness (testDatabase, main) that runs the workload on each class *)
(* in turn and reports whether the array is back to all zero.              *)
(*                                                                         *)
(* The model keeps the code's structure and scales its sizes: the array    *)
(* length and the number of threads are bounds, and every split of the     *)
(* threads into updaters (spawned first) and readers is explored.  Sleeps  *)
(* have no effect on the state; a thread that sleeps simply stays where it *)
(* is while the others move.                                               *)
(***************************************************************************)
EXTENDS Integers, Sequences, FiniteSets

(* ------------------------------ bounds --------------------------------- *)

\* Database::DATABASE_SIZE is 10 in the source; the model runs a shorter array.
DATABASE_SIZE == 4

\* testDatabase spawns 100 updater threads and then 1000 reader threads; the
\* model spawns NumThreads threads, the first nUpdaters of them updaters.
NumThreads == 2

\* Number of values beyond NumThreads a torn read of threads.size() may return.
MaxTorn == 1

\* Number of index values beyond the array a caller of the classes may pass.
MaxOverrun == 1

\* The seeds -MaxSeed .. MaxSeed are passed to getIndicesInShuffledOrder (int seed).
MaxSeed == 40

(* ----------------------------- constants ------------------------------- *)

Cells == 0 .. (DATABASE_SIZE - 1)

TIDs == 0 .. (NumThreads - 1)

NoThread == -1

\* std::array<std::mutex, DATABASE_SIZE / 2>
NumMutexes == DATABASE_SIZE \div 2

\* main instantiates testDatabase for the four classes in this order.
Variants == <<"Database", "SingleMutexDatabase", "SharedMutexDatabase", "SplitMutexDatabase">>

\* A plausible slip: the sign of the last value.
Deltas_SignSlip == <<25, -40, -15>>

\* A plausible slip: the calls of the updater lambda in another order.
Deltas_Reordered == <<-40, 25, 15>>

\* The three calls of the updater lambda: +25, -40, +15.
Deltas == <<25, -40, 15>>

\* What an uninitialised int64 of the array may hold before the constructor runs.
Indeterminate == {0, 7}

VARIABLES
    nUpdaters,      \* bound of the first spawn loop (100 in the source)
    run,            \* index into Variants of the testDatabase<DBTYPE> call in progress
    mainPc,         \* position of the main thread
    exitCode,       \* -1 while running, main's return value afterwards
    verdict,        \* per run: "" until reported, then "Pass" or "FAILED!!!"
    data_,          \* Database::data_
    mutex_,         \* SingleMutexDatabase::mutex_ : owner or NoThread
    shared_mutex_,  \* SharedMutexDatabase::shared_mutex_ : [writer, readers]
    mutexes_,       \* SplitMutexDatabase::mutexes_ : shard -> owner or NoThread
    constructed,    \* number of std::thread objects constructed so far
    size,           \* threads.size() as published by emplace_back
    joined,         \* number of threads main has joined
    pc,             \* per worker thread: its position
    pass,           \* per worker thread: number of passes completed
    indices,        \* per worker thread: the array returned by getIndicesInShuffledOrder
    pos,            \* per worker thread: for_each's position in indices (1-based)
    tmp             \* per worker thread: the value loaded by data_.at(index) += value

vars == <<nUpdaters, run, mainPc, exitCode, verdict, data_, mutex_, shared_mutex_, mutexes_,
          constructed, size, joined, pc, pass, indices, pos, tmp>>

mainVars == <<nUpdaters, run, mainPc, exitCode, verdict, constructed, size, joined>>

lockVars == <<mutex_, shared_mutex_, mutexes_>>

DBTYPE == Variants[run]

\* The threads of the first spawn loop run the updater lambda, the others
\* the reader lambda.
IsUpdater(t) == t < nUpdaters

\* Number of passes a thread's lambda makes: three updates, or one read.
NumPasses(t) == IF IsUpdater(t) THEN Len(Deltas) ELSE 1

(* ----------------------- getIndicesInShuffledOrder --------------------- *)

\* std::iota(indices.begin(), indices.end(), 0)
iota == [k \in 1 .. DATABASE_SIZE |-> k - 1]

\* std::mt19937 is library code: a deterministic stream of numbers fixed by the
\* seed.  It is modelled by the engine's seeding recurrence
\* x_i = 1812433253 * (x_{i-1} xor (x_{i-1} >> 30)) + i at a width of 15 bits
\* (the xor term vanishes below 2^30; 2405 is the multiplier's low 15 bits).
EngineModulus == 32768

mt19937_next(x, i) == (2405 * x + i) % EngineModulus

\* std::uniform_int_distribution over 0 .. bound-1, from the engine's high bits.
uniform_int(x, bound) == (x \div 256) % bound

\* A plausible slip: the swap is written as an assignment, which loses a[i].
iter_swap_Assign(a, i, j) == [a EXCEPT ![i] = a[j]]

\* std::iter_swap
iter_swap(a, i, j) == [a EXCEPT ![i] = a[j], ![j] = a[i]]

\* std::shuffle: for each position i after the first, swap it with a position
\* drawn from the first i.
RECURSIVE shuffle(_, _, _)
shuffle(a, i, x) ==
    IF i > Len(a) THEN a
    ELSE LET x2 == mt19937_next(x, i)
             j == 1 + uniform_int(x2, i)
         IN shuffle(iter_swap(a, i, j), i + 1, x2)

getIndicesInShuffledOrder(seed) == shuffle(iota, 2, seed % EngineModulus)

(* ------------------------------ the locks ------------------------------ *)

\* A plausible slip: / where % was meant.
ShardOf_Div(index) == (index \div NumMutexes) % NumMutexes

\* A plausible slip: every index is mapped to the first mutex.
ShardOf_First(index) == 0

\* index % mutexes_.size()
ShardOf(index) == index % NumMutexes

\* A freshly constructed std::shared_mutex.
SharedMutexFree == [writer |-> NoThread, readers |-> {}]

\* A plausible slip: the guard locks a mutex local to the call, which never blocks.
SingleMutexDatabase_lock_Local(t) ==
    /\ mutex_' = t
    /\ UNCHANGED <<shared_mutex_, mutexes_>>

\* std::lock_guard<std::mutex> lock{mutex_}
SingleMutexDatabase_lock(t) ==
    /\ mutex_ = NoThread
    /\ mutex_' = t
    /\ UNCHANGED <<shared_mutex_, mutexes_>>

\* A plausible slip: readValue takes the lock in exclusive mode as well.
SharedMutexDatabase_readValue_lock_Unique(t) ==
    /\ shared_mutex_.writer = NoThread
    /\ shared_mutex_.readers = {}
    /\ shared_mutex_' = [shared_mutex_ EXCEPT !.readers = {t}]
    /\ UNCHANGED <<mutex_, mutexes_>>

\* std::shared_lock lock{shared_mutex_}
SharedMutexDatabase_readValue_lock(t) ==
    /\ shared_mutex_.writer = NoThread
    /\ shared_mutex_' = [shared_mutex_ EXCEPT !.readers = @ \cup {t}]
    /\ UNCHANGED <<mutex_, mutexes_>>

\* A plausible slip: updateValue takes the lock in shared mode as well.
SharedMutexDatabase_updateValue_lock_Shared(t) ==
    /\ shared_mutex_.writer = NoThread
    /\ shared_mutex_' = [shared_mutex_ EXCEPT !.readers = @ \cup {t}]
    /\ UNCHANGED <<mutex_, mutexes_>>

\* std::unique_lock lock{shared_mutex_}
SharedMutexDatabase_updateValue_lock(t) ==
    /\ shared_mutex_.writer = NoThread
    /\ shared_mutex_.readers = {}
    /\ shared_mutex_' = [shared_mutex_ EXCEPT !.writer = t]
    /\ UNCHANGED <<mutex_, mutexes_>>

\* A plausible slip: the array of mutexes is local to the call, and its locks
\* never block.
SplitMutexDatabase_lock_Local(t, index) ==
    /\ mutexes_' = [mutexes_ EXCEPT ![ShardOf(index)] = t]
    /\ UNCHANGED <<mutex_, shared_mutex_>>

\* std::lock_guard<std::mutex> lock{mutexes_[index % mutexes_.size()]}
SplitMutexDatabase_lock(t, index) ==
    /\ mutexes_[ShardOf(index)] = NoThread
    /\ mutexes_' = [mutexes_ EXCEPT ![ShardOf(index)] = t]
    /\ UNCHANGED <<mutex_, shared_mutex_>>

\* DBTYPE::readValue up to the call of Database::readValue.
readValue_lock(t, index) ==
    CASE DBTYPE = "Database" -> UNCHANGED lockVars
      [] DBTYPE = "SingleMutexDatabase" -> SingleMutexDatabase_lock(t)
      [] DBTYPE = "SharedMutexDatabase" -> SharedMutexDatabase_readValue_lock(t)
      [] DBTYPE = "SplitMutexDatabase" -> SplitMutexDatabase_lock(t, index)

\* A plausible slip: the class does not override updateValue, and the call goes
\* to Database::updateValue without a lock.
updateValue_lock_Inherited(t, index) == UNCHANGED lockVars

\* DBTYPE::updateValue up to the call of Database::updateValue.
updateValue_lock(t, index) ==
    CASE DBTYPE = "Database" -> UNCHANGED lockVars
      [] DBTYPE = "SingleMutexDatabase" -> SingleMutexDatabase_lock(t)
      [] DBTYPE = "SharedMutexDatabase" -> SharedMutexDatabase_updateValue_lock(t)
      [] DBTYPE = "SplitMutexDatabase" -> SplitMutexDatabase_lock(t, index)

\* A plausible slip: the mutex is locked by hand and never unlocked.
unlock_Missing(t, index) == UNCHANGED lockVars

\* The destructor of the scoped lock, run on return and on a throw alike.
unlock(t, index) ==
    CASE DBTYPE = "Database" -> UNCHANGED lockVars
      [] DBTYPE = "SingleMutexDatabase" ->
            /\ mutex_' = NoThread
            /\ UNCHANGED <<shared_mutex_, mutexes_>>
      [] DBTYPE = "SharedMutexDatabase" ->
            /\ shared_mutex_' = [writer |-> IF shared_mutex_.writer = t THEN NoThread
                                            ELSE shared_mutex_.writer,
                                 readers |-> shared_mutex_.readers \ {t}]
            /\ UNCHANGED <<mutex_, mutexes_>>
      [] DBTYPE = "SplitMutexDatabase" ->
            /\ mutexes_' = [mutexes_ EXCEPT ![ShardOf(index)] = NoThread]
            /\ UNCHANGED <<mutex_, shared_mutex_>>

(* ---------------------------- worker threads --------------------------- *)

\* Thread t is inside Database::readValue / Database::updateValue, before the
\* access to data_.  The locking classes get there through their lock; class
\* Database has no lock, and its caller is there as soon as it calls.
InUnderlyingSleep(t) ==
    IF DBTYPE = "Database" THEN pc[t] = "call" ELSE pc[t] = "sleep"

\* The process runs until an exception escapes a thread (std::terminate).
Alive == mainPc # "terminated"

\* The index the for_each of the current pass is at.
CurIndex(t) == indices[t][pos[t]]

\* A plausible slip: the three calls of the updater lambda were pasted with
\* the value of the first.
CurValue_Pasted(t) == Deltas[1]

\* The value argument of the current updateAllInRandomOrder call.
CurValue(t) == Deltas[pass[t] + 1]

\* threads.size() read by a worker: the vector is unsynchronised, and a read
\* that overlaps an emplace_back of the main thread may return anything.
threads_size ==
    IF mainPc = "emplace"
    THEN {size} \cup ((NumThreads + 1) .. (NumThreads + MaxTorn))
    ELSE {size}

\* updateAllInRandomOrder / readAllInRandomOrder up to the for_each:
\* evaluate threads.size() and build the shuffled index array.
BeginPass(t) ==
    /\ Alive
    /\ pc[t] = "begin"
    /\ \E seed \in threads_size :
          indices' = [indices EXCEPT ![t] = getIndicesInShuffledOrder(seed)]
    /\ pos' = [pos EXCEPT ![t] = 1]
    /\ pc' = [pc EXCEPT ![t] = "call"]
    /\ UNCHANGED <<mainVars, data_, lockVars, pass, tmp>>

\* The lambda of for_each calls database.readValue(i) / database.updateValue(i, value)
\* of a locking class: the scoped lock is taken and the underlying call starts
\* with its sleep.
Enter(t) ==
    /\ Alive
    /\ pc[t] = "call"
    /\ DBTYPE # "Database"
    /\ IF IsUpdater(t) THEN updateValue_lock(t, CurIndex(t))
                       ELSE readValue_lock(t, CurIndex(t))
    /\ pc' = [pc EXCEPT ![t] = "sleep"]
    /\ UNCHANGED <<mainVars, data_, pass, indices, pos, tmp>>

\* After the call returned and the pause was slept: for_each moves on, and the
\* pass (and with the last pass, the thread) ends after the last index.
Advance(t) ==
    IF pos[t] < Len(indices[t])
    THEN /\ pos' = [pos EXCEPT ![t] = @ + 1]
         /\ pc' = [pc EXCEPT ![t] = "call"]
         /\ UNCHANGED <<pass, indices>>
    ELSE /\ pos' = [pos EXCEPT ![t] = 0]
         /\ indices' = [indices EXCEPT ![t] = <<>>]
         /\ pass' = [pass EXCEPT ![t] = @ + 1]
         /\ pc' = [pc EXCEPT ![t] = IF pass[t] + 1 < NumPasses(t) THEN "begin" ELSE "done"]

\* A plausible slip: the lock is released by an unlock() at the end of the
\* function, which a throw skips.
Throw_ManualUnlock(t) ==
    /\ pc' = [pc EXCEPT ![t] = "threw"]
    /\ mainPc' = IF mainPc = "api" THEN "api" ELSE "terminated"
    /\ UNCHANGED <<nUpdaters, run, exitCode, verdict, constructed, size, joined,
                   data_, lockVars, pass, indices, pos, tmp>>

\* data_.at(index) throws std::out_of_range; the scoped lock is released while
\* the exception unwinds.  An exception that leaves a thread of the harness
\* ends the process; a caller outside the harness gets the exception.
Throw(t) ==
    /\ unlock(t, CurIndex(t))
    /\ pc' = [pc EXCEPT ![t] = "threw"]
    /\ mainPc' = IF mainPc = "api" THEN "api" ELSE "terminated"
    /\ UNCHANGED <<nUpdaters, run, exitCode, verdict, constructed, size, joined,
                   data_, pass, indices, pos, tmp>>

\* The largest and the smallest value of the int that readValue returns.
INT_MAX == 2147483647

INT_MIN == (0 - INT_MAX) - 1

\* The conversion of the int64_t cell to the int return type of readValue:
\* the value itself if an int can hold it, and the value modulo 2^32 if not.
to_int(x) ==
    IF x >= INT_MIN /\ x <= INT_MAX
    THEN x
    ELSE ((x - INT_MIN) % (2 * (INT_MAX + 1))) + INT_MIN

\* What Database::readValue(index) returns in the current state.
readValue_result(index) == to_int(data_[index])

\* Database::readValue after its sleep: return data_.at(index).
Database_readValue(t) ==
    /\ Alive
    /\ InUnderlyingSleep(t)
    /\ ~IsUpdater(t)
    /\ IF CurIndex(t) \in Cells
       THEN /\ unlock(t, CurIndex(t))
            /\ Advance(t)
            /\ UNCHANGED <<mainVars, data_, tmp>>
       ELSE Throw(t)

\* A plausible slip: the scoped lock covers the sleep only, and is released
\* before data_.at(index) += value.
Database_updateValue_load_Unlocked(t) ==
    /\ Alive
    /\ InUnderlyingSleep(t)
    /\ IsUpdater(t)
    /\ IF CurIndex(t) \in Cells
       THEN /\ tmp' = [tmp EXCEPT ![t] = data_[CurIndex(t)]]
            /\ pc' = [pc EXCEPT ![t] = "store"]
            /\ unlock(t, CurIndex(t))
            /\ UNCHANGED <<mainVars, data_, pass, indices, pos>>
       ELSE Throw(t)

\* Database::updateValue after its sleep: the load of data_.at(index) += value.
Database_updateValue_load(t) ==
    /\ Alive
    /\ InUnderlyingSleep(t)
    /\ IsUpdater(t)
    /\ IF CurIndex(t) \in Cells
       THEN /\ tmp' = [tmp EXCEPT ![t] = data_[CurIndex(t)]]
            /\ pc' = [pc EXCEPT ![t] = "store"]
            /\ UNCHANGED <<mainVars, data_, lockVars, pass, indices, pos>>
       ELSE Throw(t)

\* A plausible slip: = where += was meant.
plus_assign_Overwrite(old, value) == value

\* The value data_.at(index) += value stores, given the value it loaded.
plus_assign(old, value) == old + value

\* The store of data_.at(index) += value, and the return.
Database_updateValue_store(t) ==
    /\ Alive
    /\ pc[t] = "store"
    /\ data_' = [data_ EXCEPT ![CurIndex(t)] = plus_assign(tmp[t], CurValue(t))]
    /\ tmp' = [tmp EXCEPT ![t] = 0]
    /\ unlock(t, CurIndex(t))
    /\ Advance(t)
    /\ UNCHANGED mainVars

\* Thread t is inside Database::readValue / Database::updateValue, its sleep
\* included.
InFlight(t) == InUnderlyingSleep(t) \/ pc[t] = "store"

\* Thread t owns a lock of the database, in either mode.
HoldsLock(t) ==
    \/ mutex_ = t
    \/ shared_mutex_.writer = t
    \/ t \in shared_mutex_.readers
    \/ \E m \in 0 .. (NumMutexes - 1) : mutexes_[m] = t

(* ------------------------------ the harness ---------------------------- *)

\* Database::isAllZero
isAllZero == \A i \in Cells : data_[i] = 0

\* A plausible slip: the constructor of Database does not fill the array, and
\* the table starts with what its storage held.
Construct_NoFill ==
    /\ mainPc = "construct"
    /\ mutex_' = NoThread
    /\ shared_mutex_' = SharedMutexFree
    /\ mutexes_' = [m \in 0 .. (NumMutexes - 1) |-> NoThread]
    /\ constructed' = 0
    /\ size' = 0
    /\ joined' = 0
    /\ pc' = [t \in TIDs |-> "unborn"]
    /\ pass' = [t \in TIDs |-> 0]
    /\ indices' = [t \in TIDs |-> <<>>]
    /\ pos' = [t \in TIDs |-> 0]
    /\ tmp' = [t \in TIDs |-> 0]
    /\ mainPc' = "spawn"
    /\ UNCHANGED <<nUpdaters, run, exitCode, verdict, data_>>

\* DBTYPE db; std::vector<std::thread> threads;
Construct ==
    /\ mainPc = "construct"
    /\ data_' = [i \in Cells |-> 0]
    /\ mutex_' = NoThread
    /\ shared_mutex_' = SharedMutexFree
    /\ mutexes_' = [m \in 0 .. (NumMutexes - 1) |-> NoThread]
    /\ constructed' = 0
    /\ size' = 0
    /\ joined' = 0
    /\ pc' = [t \in TIDs |-> "unborn"]
    /\ pass' = [t \in TIDs |-> 0]
    /\ indices' = [t \in TIDs |-> <<>>]
    /\ pos' = [t \in TIDs |-> 0]
    /\ tmp' = [t \in TIDs |-> 0]
    /\ mainPc' = "spawn"
    /\ UNCHANGED <<nUpdaters, run, exitCode, verdict>>

\* threads.emplace_back(lambda), first half: the std::thread is constructed
\* in the vector's storage and starts to run.
EmplaceConstruct ==
    /\ mainPc = "spawn"
    /\ constructed < NumThreads
    /\ pc' = [pc EXCEPT ![constructed] = "begin"]
    /\ constructed' = constructed + 1
    /\ mainPc' = "emplace"
    /\ UNCHANGED <<nUpdaters, run, exitCode, verdict, size, joined, data_, lockVars,
                   pass, indices, pos, tmp>>

\* threads.emplace_back(lambda), second half: the vector's size is updated;
\* after the last thread the spawn loops are over.
EmplacePublish ==
    /\ mainPc = "emplace"
    /\ size' = size + 1
    /\ mainPc' = IF constructed = NumThreads THEN "join" ELSE "spawn"
    /\ UNCHANGED <<nUpdaters, run, exitCode, verdict, constructed, joined, data_, lockVars,
                   pc, pass, indices, pos, tmp>>

\* A plausible slip: the loop goes over the threads without waiting for them
\* (detach() where join() was meant).
Join_Detach ==
    /\ mainPc = "join"
    /\ joined < NumThreads
    /\ joined' = joined + 1
    /\ mainPc' = IF joined + 1 = NumThreads THEN "report" ELSE "join"
    /\ UNCHANGED <<nUpdaters, run, exitCode, verdict, constructed, size, data_, lockVars,
                   pc, pass, indices, pos, tmp>>

\* A plausible slip: every round of the loop waits for the first thread of
\* the vector (threads.front() where t was meant).
Join_Front ==
    /\ mainPc = "join"
    /\ joined < NumThreads
    /\ pc[0] = "done"
    /\ joined' = joined + 1
    /\ mainPc' = IF joined + 1 = NumThreads THEN "report" ELSE "join"
    /\ UNCHANGED <<nUpdaters, run, exitCode, verdict, constructed, size, data_, lockVars,
                   pc, pass, indices, pos, tmp>>

\* t.join() for the threads in vector order.
Join ==
    /\ mainPc = "join"
    /\ joined < NumThreads
    /\ pc[joined] = "done"
    /\ joined' = joined + 1
    /\ mainPc' = IF joined + 1 = NumThreads THEN "report" ELSE "join"
    /\ UNCHANGED <<nUpdaters, run, exitCode, verdict, constructed, size, data_, lockVars,
                   pc, pass, indices, pos, tmp>>

\* The std::cout statement of testDatabase, and the return into main.
Report ==
    /\ mainPc = "report"
    /\ verdict' = [verdict EXCEPT ![run] = IF isAllZero THEN "Pass" ELSE "FAILED!!!"]
    /\ IF run < Len(Variants)
       THEN run' = run + 1 /\ mainPc' = "construct"
       ELSE run' = run /\ mainPc' = "return"
    /\ UNCHANGED <<nUpdaters, exitCode, constructed, size, joined, data_, lockVars,
                   pc, pass, indices, pos, tmp>>

\* return 0;
Return ==
    /\ mainPc = "return"
    /\ exitCode' = 0
    /\ mainPc' = "exited"
    /\ UNCHANGED <<nUpdaters, run, verdict, constructed, size, joined, data_, lockVars,
                   pc, pass, indices, pos, tmp>>

\* Entry of main: nothing is constructed yet, and the storage of the first
\* database holds whatever the stack held.
Init ==
    /\ nUpdaters \in 0 .. NumThreads
    /\ run = 1
    /\ mainPc = "construct"
    /\ exitCode = -1
    /\ verdict = [r \in 1 .. Len(Variants) |-> ""]
    /\ data_ \in [Cells -> Indeterminate]
    /\ mutex_ = NoThread
    /\ shared_mutex_ = SharedMutexFree
    /\ mutexes_ = [m \in 0 .. (NumMutexes - 1) |-> NoThread]
    /\ constructed = 0
    /\ size = 0
    /\ joined = 0
    /\ pc = [t \in TIDs |-> "unborn"]
    /\ pass = [t \in TIDs |-> 0]
    /\ indices = [t \in TIDs |-> <<>>]
    /\ pos = [t \in TIDs |-> 0]
    /\ tmp = [t \in TIDs |-> 0]

main ==
    \/ Construct
    \/ EmplaceConstruct
    \/ EmplacePublish
    \/ Join
    \/ Report
    \/ Return

worker(t) ==
    \/ BeginPass(t)
    \/ Enter(t)
    \/ Database_readValue(t)
    \/ Database_updateValue_load(t)
    \/ Database_updateValue_store(t)

Next == main \/ \E t \in TIDs : worker(t)

Spec == Init /\ [][Next]_vars

\* Every step of the program is taken eventually: the threads are OS threads,
\* each of which keeps running, and a thread blocked on a lock runs again once
\* the lock is free.
FairSpec == Spec /\ WF_vars(Next)

(* ------------------- the runs of the locking classes ------------------- *)

\* The state in which main enters testDatabase<SingleMutexDatabase>: the run of
\* class Database is reported, its threads are joined and its storage left
\* behind, all zero after a pass, or with an update lost after a failure.
SyncInit ==
    /\ nUpdaters \in 0 .. NumThreads
    /\ run = 2
    /\ mainPc = "construct"
    /\ exitCode = -1
    /\ \/ /\ verdict = [r \in 1 .. Len(Variants) |-> IF r = 1 THEN "Pass" ELSE ""]
          /\ data_ = [i \in Cells |-> 0]
       \/ /\ nUpdaters >= 2
          /\ verdict = [r \in 1 .. Len(Variants) |-> IF r = 1 THEN "FAILED!!!" ELSE ""]
          /\ data_ = [i \in Cells |-> IF i = DATABASE_SIZE - 1 THEN -15 ELSE 0]
    /\ mutex_ = NoThread
    /\ shared_mutex_ = SharedMutexFree
    /\ mutexes_ = [m \in 0 .. (NumMutexes - 1) |-> NoThread]
    /\ constructed = NumThreads
    /\ size = NumThreads
    /\ joined = NumThreads
    /\ pc = [t \in TIDs |-> "done"]
    /\ pass = [t \in TIDs |-> NumPasses(t)]
    /\ indices = [t \in TIDs |-> <<>>]
    /\ pos = [t \in TIDs |-> 0]
    /\ tmp = [t \in TIDs |-> 0]

SyncSpec == SyncInit /\ [][Next]_vars

(* --------------------- the classes under any caller -------------------- *)

\* The index values a caller may pass: those of the array and some beyond.
Indexes == 0 .. (DATABASE_SIZE - 1 + MaxOverrun)

\* A constructed database of any of the four classes, and NumThreads
\* callers that call it outside the harness and catch what it throws.
ApiInit ==
    /\ nUpdaters \in 0 .. NumThreads
    /\ run \in 1 .. Len(Variants)
    /\ mainPc = "api"
    /\ exitCode = -1
    /\ verdict = [r \in 1 .. Len(Variants) |-> ""]
    /\ data_ = [i \in Cells |-> 0]
    /\ mutex_ = NoThread
    /\ shared_mutex_ = SharedMutexFree
    /\ mutexes_ = [m \in 0 .. (NumMutexes - 1) |-> NoThread]
    /\ constructed = NumThreads
    /\ size = NumThreads
    /\ joined = 0
    /\ pc = [t \in TIDs |-> "begin"]
    /\ pass = [t \in TIDs |-> 0]
    /\ indices = [t \in TIDs |-> <<>>]
    /\ pos = [t \in TIDs |-> 0]
    /\ tmp = [t \in TIDs |-> 0]

\* A caller calls readValue(index) or updateValue(index, value) once, with any
\* index; after a throw it goes on to its next call.
ApiCall(t) ==
    /\ mainPc = "api"
    /\ \/ pc[t] = "begin" /\ UNCHANGED pass
       \/ /\ pc[t] = "threw"
          /\ pass[t] + 1 < NumPasses(t)
          /\ pass' = [pass EXCEPT ![t] = @ + 1]
    /\ \E index \in Indexes : indices' = [indices EXCEPT ![t] = <<index>>]
    /\ pos' = [pos EXCEPT ![t] = 1]
    /\ pc' = [pc EXCEPT ![t] = "call"]
    /\ UNCHANGED <<mainVars, data_, lockVars, tmp>>

caller(t) ==
    \/ ApiCall(t)
    \/ Enter(t)
    \/ Database_readValue(t)
    \/ Database_updateValue_load(t)
    \/ Database_updateValue_store(t)

ApiNext == \E t \in TIDs : caller(t)

ApiSpec == ApiInit /\ [][ApiNext]_vars

(* ------------------- one thread's passes under any seed ---------------- *)

\* The values of the int seed parameter.
Seeds == (0 - MaxSeed) .. MaxSeed

\* A constructed database of any of the four classes and one thread, an
\* updater or a reader, that runs the passes of its lambda with any seeds.
SeededInit ==
    /\ nUpdaters \in 0 .. NumThreads
    /\ run \in 1 .. Len(Variants)
    /\ mainPc = "seeded"
    /\ exitCode = -1
    /\ verdict = [r \in 1 .. Len(Variants) |-> ""]
    /\ data_ = [i \in Cells |-> 0]
    /\ mutex_ = NoThread
    /\ shared_mutex_ = SharedMutexFree
    /\ mutexes_ = [m \in 0 .. (NumMutexes - 1) |-> NoThread]
    /\ constructed = NumThreads
    /\ size = NumThreads
    /\ joined = 0
    /\ pc = [t \in TIDs |-> IF t = 0 THEN "begin" ELSE "done"]
    /\ pass = [t \in TIDs |-> IF t = 0 THEN 0 ELSE NumPasses(t)]
    /\ indices = [t \in TIDs |-> <<>>]
    /\ pos = [t \in TIDs |-> 0]
    /\ tmp = [t \in TIDs |-> 0]

\* updateAllInRandomOrder(db, value, seed) / readAllInRandomOrder(db, seed) up
\* to the for_each, called with any seed.
SeededBeginPass(t) ==
    /\ mainPc = "seeded"
    /\ pc[t] = "begin"
    /\ \E seed \in Seeds :
          indices' = [indices EXCEPT ![t] = getIndicesInShuffledOrder(seed)]
    /\ pos' = [pos EXCEPT ![t] = 1]
    /\ pc' = [pc EXCEPT ![t] = "call"]
    /\ UNCHANGED <<mainVars, data_, lockVars, pass, tmp>>

seeded(t) ==
    \/ SeededBeginPass(t)
    \/ Enter(t)
    \/ Database_readValue(t)
    \/ Database_updateValue_load(t)
    \/ Database_updateValue_store(t)

SeededNext == \E t \in TIDs : seeded(t)

SeededSpec == SeededInit /\ [][SeededNext]_vars

(* ======================================================================= *)
(* Properties                                                              *)
(* ======================================================================= *)

\* All threads of the current run are joined and its report is due.
AllJoined == mainPc = "report"

\* C1: for each locking class (SingleMutexDatabase, SharedMutexDatabase,
\* SplitMutexDatabase) and every interleaving of the updater and reader
\* threads, every cell is 0 once all threads are joined, so isAllZero()
\* returns true and the run is reported as passed.
C1_SynchronizedRunsEndAllZero ==
    /\ (DBTYPE # "Database" /\ AllJoined) => isAllZero
    /\ \A r \in 2 .. Len(Variants) : verdict[r] # "FAILED!!!"

\* A run of the sharded class with at least two updaters, joined and all zero,
\* after the two other locking classes passed.
C1_Witness ==
    /\ DBTYPE = "SplitMutexDatabase"
    /\ AllJoined
    /\ nUpdaters >= 2
    /\ \A t \in TIDs : pass[t] = NumPasses(t)
    /\ isAllZero
    /\ verdict[2] = "Pass" /\ verdict[3] = "Pass"

\* C2: in class Database updateValue is an unsynchronised read-modify-write.
\* A run of it ends with a non-zero cell only through two updaters overlapping:
\* with fewer than two updater threads it ends all zero, and with two or more
\* the state of C2_Witness, a lost update and a failed verdict, is reachable.
C2_UnlockedLosesUpdatesOnlyByOverlap ==
    /\ (DBTYPE = "Database" /\ AllJoined /\ nUpdaters < 2) => isAllZero
    /\ verdict[1] = "FAILED!!!" => nUpdaters >= 2

\* The run of class Database is joined with a cell that is not zero, and, a
\* step later, reported as failed.
C2_Witness ==
    /\ verdict[1] = "FAILED!!!"
    /\ run = 2
    /\ mainPc = "construct"
    /\ \A t \in TIDs : pc[t] = "done"
    /\ \E i \in Cells : data_[i] # 0

\* C3: in SingleMutexDatabase at most one thread is inside an underlying
\* Database::readValue or Database::updateValue call, sleep included, in every
\* reachable state, and that thread owns the mutex.
C3_SingleMutexOneInFlight ==
    DBTYPE = "SingleMutexDatabase" =>
        \A t1, t2 \in TIDs :
            (InFlight(t1) /\ InFlight(t2)) => (t1 = t2 /\ mutex_ = t1)

\* One thread is inside the underlying call while another one has called and
\* waits for the mutex.
C3_Witness ==
    /\ DBTYPE = "SingleMutexDatabase"
    /\ \E t1, t2 \in TIDs : t1 # t2 /\ InFlight(t1) /\ pc[t2] = "call"

\* C4: in SharedMutexDatabase, while a thread is inside the underlying
\* updateValue no other thread is inside the underlying readValue or
\* updateValue, on any cell.
C4_SharedMutexWriterAlone ==
    DBTYPE = "SharedMutexDatabase" =>
        \A t1, t2 \in TIDs :
            (IsUpdater(t1) /\ InFlight(t1) /\ InFlight(t2)) => t1 = t2

\* An updater is inside the underlying updateValue while a reader has called
\* readValue and waits.
C4_Witness ==
    /\ DBTYPE = "SharedMutexDatabase"
    /\ \E t1, t2 \in TIDs :
          /\ IsUpdater(t1) /\ InFlight(t1)
          /\ ~IsUpdater(t2) /\ pc[t2] = "call"

\* C5: in SharedMutexDatabase the shared acquisition of readValue does not
\* serialise readers: whenever no writer holds the lock, a reader that has
\* called readValue can enter the underlying call, whoever else is reading;
\* so two readers inside the underlying readValue at once are reachable
\* (C5_Witness).
C5_SharedMutexReadersNotSerialised ==
    DBTYPE = "SharedMutexDatabase" =>
        \A t \in TIDs :
            (~IsUpdater(t) /\ pc[t] = "call" /\ Alive /\ shared_mutex_.writer = NoThread)
                => ENABLED Enter(t)

\* Two distinct threads are inside the underlying readValue and no writer
\* holds the lock.
C5_Witness ==
    /\ DBTYPE = "SharedMutexDatabase"
    /\ shared_mutex_.writer = NoThread
    /\ \E t1, t2 \in TIDs :
          /\ t1 # t2
          /\ ~IsUpdater(t1) /\ InFlight(t1)
          /\ ~IsUpdater(t2) /\ InFlight(t2)

\* C6: in SplitMutexDatabase an operation on cell i holds mutex i mod S
\* (S = DATABASE_SIZE / 2) for the whole underlying call, so two operations on
\* cells of the same residue mod S, the same cell or cells i and i + S, are
\* never in flight at the same time.
C6_SplitMutexSameShardExcluded ==
    DBTYPE = "SplitMutexDatabase" =>
        \A t1, t2 \in TIDs :
            /\ InFlight(t1) => mutexes_[CurIndex(t1) % NumMutexes] = t1
            /\ (t1 # t2 /\ InFlight(t1) /\ InFlight(t2))
                   => CurIndex(t1) % NumMutexes # CurIndex(t2) % NumMutexes

\* A thread is inside the underlying call on cell i while another has called
\* for the distinct cell i + S and waits.
C6_Witness ==
    /\ DBTYPE = "SplitMutexDatabase"
    /\ \E t1, t2 \in TIDs :
          /\ t1 # t2 /\ InFlight(t1) /\ pc[t2] = "call"
          /\ CurIndex(t2) = CurIndex(t1) + NumMutexes

\* C7: in SplitMutexDatabase operations on cells of different residues mod S
\* can overlap: a thread that has called for cell j is never kept out by
\* operations in flight on cells of other residues, so a state with one thread
\* inside the underlying call on cell i and another inside it on cell j is
\* reachable (C7_Witness).
C7_SplitMutexOtherShardsOverlap ==
    DBTYPE = "SplitMutexDatabase" =>
        \A t \in TIDs :
            ( /\ pc[t] = "call"
              /\ Alive
              /\ \A t2 \in TIDs \ {t} :
                    InFlight(t2) => CurIndex(t2) % NumMutexes # CurIndex(t) % NumMutexes )
                => ENABLED Enter(t)

\* Two threads are inside the underlying call at once, on cells of different
\* residues mod S, one of them an updater.
C7_Witness ==
    /\ DBTYPE = "SplitMutexDatabase"
    /\ \E t1, t2 \in TIDs :
          /\ t1 # t2 /\ InFlight(t1) /\ InFlight(t2)
          /\ IsUpdater(t1)
          /\ CurIndex(t1) % NumMutexes # CurIndex(t2) % NumMutexes

\* C8 as stated: under each locking class no two readValue / updateValue
\* calls on the same cell are in flight at the same time.
C8_SameCellNeverOverlaps ==
    DBTYPE # "Database" =>
        \A t1, t2 \in TIDs :
            (t1 # t2 /\ InFlight(t1) /\ InFlight(t2)) => CurIndex(t1) # CurIndex(t2)

\* C8 as amended: under each locking class no two calls on the same cell are
\* in flight at the same time, except two readValue calls under
\* SharedMutexDatabase, whose shared lock lets reads of one cell overlap.
C8_SameCellOverlapsOnlyForSharedReads ==
    DBTYPE # "Database" =>
        \A t1, t2 \in TIDs :
            (t1 # t2 /\ InFlight(t1) /\ InFlight(t2) /\ CurIndex(t1) = CurIndex(t2))
                => (DBTYPE = "SharedMutexDatabase" /\ ~IsUpdater(t1) /\ ~IsUpdater(t2))

\* Under SplitMutexDatabase a thread is inside the underlying updateValue on a
\* cell while a reader has called readValue for the same cell and waits.
C8_Witness ==
    /\ DBTYPE = "SplitMutexDatabase"
    /\ \E t1, t2 \in TIDs :
          /\ IsUpdater(t1) /\ InFlight(t1)
          /\ ~IsUpdater(t2) /\ pc[t2] = "call"
          /\ CurIndex(t1) = CurIndex(t2)

\* C9: for every class, a readValue or updateValue call with an index beyond
\* the array fails with the out-of-range error, changes no cell and leaves no
\* lock held by the caller; and no thread outside an underlying call holds a
\* lock, so a later operation of any thread can acquire it.
C9_OutOfBoundsThrowsAndReleases ==
    [][\A t \in TIDs :
          /\ (InUnderlyingSleep(t) /\ CurIndex(t) \notin Cells /\ pc'[t] # pc[t])
                => (pc'[t] = "threw" /\ data_' = data_ /\ ~HoldsLock(t)')
          /\ (pc'[t] = "threw") => ~HoldsLock(t)'
          /\ (pc'[t] = "threw" /\ pc[t] # "threw")
                => (InUnderlyingSleep(t) /\ CurIndex(t) \notin Cells)]_vars

\* Under SplitMutexDatabase a call with an index beyond the array has thrown,
\* and another thread is then inside the underlying call under the very mutex
\* the failed call had taken.
C9_Witness ==
    /\ DBTYPE = "SplitMutexDatabase"
    /\ \E t1, t2 \in TIDs :
          /\ t1 # t2
          /\ pc[t1] = "threw"
          /\ pc[t2] = "sleep"
          /\ CurIndex(t2) \in Cells
          /\ CurIndex(t1) % NumMutexes = CurIndex(t2) % NumMutexes
          /\ mutexes_[CurIndex(t2) % NumMutexes] = t2

(* Termination.  The steps main and the workers have left are counted by a
   natural number that every step lowers; a run that can always take a step
   until main has returned therefore returns once every enabled step is
   eventually taken. *)

\* Steps of one pass: BeginPass, and at most three per index.
PassRank == 3 * DATABASE_SIZE + 1

\* Where in the three steps of an index a thread is (pos counts the indices
\* begun); a thread not yet started has its start before it.
PcOffset == [unborn |-> -1, begin |-> 0, call |-> -2, sleep |-> -1, store |-> 0,
             done |-> 0, threw |-> 0]

\* Steps thread t has left, at most.
WorkerRank(t) == (NumPasses(t) - pass[t]) * PassRank - 3 * pos[t] - PcOffset[pc[t]]

\* Steps of main in one testDatabase call: Construct, two per emplace_back, one
\* per join, Report.
RunRank == 3 * NumThreads + 2

\* Steps main has left.
MainRank ==
    CASE mainPc = "join" -> 1 + (Len(Variants) - run) * RunRank + (NumThreads - joined) + 1
      [] mainPc \in {"spawn", "emplace"} ->
            1 + (Len(Variants) - run) * RunRank + (3 * NumThreads + 1 - constructed - size)
      [] mainPc = "construct" -> 1 + (Len(Variants) - run) * RunRank + RunRank
      [] mainPc = "report" -> 1 + (Len(Variants) - run) * RunRank + 1
      [] mainPc = "return" -> 1
      [] OTHER -> 0

\* Steps the threads 0 .. n-1 have left.
RECURSIVE SumWorkerRank(_)
SumWorkerRank(n) == IF n = 0 THEN 0 ELSE WorkerRank(n - 1) + SumWorkerRank(n - 1)

\* A step of main weighs more than all the steps of the workers of one run.
MainWeight == NumThreads * (Len(Deltas) * PassRank + 1) + 1

Rank == MainRank * MainWeight + SumWorkerRank(NumThreads)

\* main has returned 0 after the four reports.
Exited ==
    /\ mainPc = "exited"
    /\ exitCode = 0
    /\ \A r \in 1 .. Len(Variants) : verdict[r] \in {"Pass", "FAILED!!!"}

\* C10: under a fair scheduler every updater and reader thread finishes all of
\* its passes, every join completes, and main reaches the report of all four
\* classes and returns 0.  Stated as what makes it so: until main has returned
\* some step is always enabled (no deadlock, no thread blocked for good), no
\* exception ends the process, every step lowers the natural number Rank, and
\* main returns only with exit code 0 after four reports and with every
\* thread finished.
C10_EveryRunTerminates ==
    /\ [](mainPc # "exited" => ENABLED Next)
    /\ [](Alive /\ Rank >= 0)
    /\ [](mainPc = "exited" => (Exited /\ \A t \in TIDs : pc[t] = "done"))
    /\ [](mainPc \in {"report", "return", "exited"} => \A t \in TIDs : pass[t] = NumPasses(t))
    /\ [][Rank' < Rank]_vars

\* main has returned 0 after a run in which updaters and readers worked.
C10_Witness ==
    /\ Exited
    /\ nUpdaters >= 1
    /\ nUpdaters < NumThreads
    /\ \A t \in TIDs : pc[t] = "done" /\ pass[t] = NumPasses(t)

\* The array is a permutation of the cell indexes.
IsPermutation(a) ==
    /\ Len(a) = DATABASE_SIZE
    /\ \A i \in Cells : \E k \in 1 .. Len(a) : a[k] = i

\* The cells whose call of the current pass has returned.
Visited(t) == {indices[t][k] : k \in 1 .. (pos[t] - 1)}

\* The sum of the values of the first p passes of an updater.
RECURSIVE SumDeltas(_)
SumDeltas(p) == IF p = 0 THEN 0 ELSE Deltas[p] + SumDeltas(p - 1)

\* C11: for every seed getIndicesInShuffledOrder returns a permutation of the
\* cell indexes, and a pass walks it from the first position to the last, one
\* call per position, never out of range: so each updateAllInRandomOrder call
\* has changed every cell it has visited by its value exactly once and no
\* other cell, and each readAllInRandomOrder call reads every cell once.
C11_EveryPassVisitsEachCellOnce ==
    /\ [](\A t \in TIDs : indices[t] # <<>> => IsPermutation(indices[t]))
    /\ [](\A t \in TIDs : pc[t] # "threw")
    /\ [](pc[0] # "done" =>
            \A i \in Cells :
                data_[i] = IF IsUpdater(0)
                           THEN SumDeltas(pass[0])
                                + (IF i \in Visited(0) THEN CurValue(0) ELSE 0)
                           ELSE 0)
    /\ [](pc[0] = "done" => \A i \in Cells : data_[i] = IF IsUpdater(0) THEN SumDeltas(Len(Deltas)) ELSE 0)
    /\ [][\A t \in TIDs :
            /\ pos'[t] # pos[t] =>
                  \/ pos[t] = 0 /\ pos'[t] = 1
                  \/ pos[t] < DATABASE_SIZE /\ pos'[t] = pos[t] + 1
                  \/ pos[t] = DATABASE_SIZE /\ pos'[t] = 0 /\ pass'[t] = pass[t] + 1
            /\ pass'[t] # pass[t] => pos[t] = DATABASE_SIZE]_vars

\* An updater is at the store of the last index of its second pass, walking
\* an order that is not the identity.
C11_Witness ==
    /\ mainPc = "seeded"
    /\ IsUpdater(0)
    /\ pass[0] = 1
    /\ pc[0] = "store"
    /\ pos[0] = DATABASE_SIZE
    /\ indices[0] # iota
    /\ Visited(0) = Cells \ {CurIndex(0)}

\* C12 as stated: the seed of every pass of a worker is the number of threads
\* in the vector when the worker was spawned (t before its own emplace_back,
\* t + 1 after it), however many threads the spawn loop has added since: the
\* index array of thread t is the shuffle for one of these two seeds.
C12_SeedIsSizeAtSpawn ==
    mainPc \notin {"api", "seeded"} =>
        \A t \in TIDs :
            indices[t] # <<>> =>
                indices[t] \in {getIndicesInShuffledOrder(t), getIndicesInShuffledOrder(t + 1)}

\* The spawn loops are over and thread 0 has not yet evaluated threads.size()
\* for its first pass: the seed it is about to read is the number of all
\* threads, whose shuffle is neither that of seed 0 nor that of seed 1.
C12_Witness ==
    /\ mainPc = "join"
    /\ size = NumThreads
    /\ pc[0] = "begin"
    /\ pass[0] = 0
    /\ threads_size = {NumThreads}
    /\ getIndicesInShuffledOrder(NumThreads)
          \notin {getIndicesInShuffledOrder(0), getIndicesInShuffledOrder(1)}

\* C13: the table is printed and isAllZero() evaluated only after every
\* spawned thread has terminated: when the report is due, all threads are
\* joined and finished with all their passes, none is inside a call or has one
\* pending, and none holds a lock; and a verdict exists only for reported runs.
C13_ReportOnlyAfterAllThreadsEnded ==
    /\ mainPc = "report" =>
          /\ joined = NumThreads
          /\ \A t \in TIDs :
                /\ pc[t] = "done"
                /\ pass[t] = NumPasses(t)
                /\ indices[t] = <<>>
                /\ ~InFlight(t)
                /\ ~HoldsLock(t)
    /\ mainPc \in {"construct", "spawn", "emplace", "join", "report"} => verdict[run] = ""

\* The report of the first run is due after an updater and a reader have run
\* and ended.
C13_Witness ==
    /\ mainPc = "report"
    /\ run = 1
    /\ nUpdaters >= 1
    /\ nUpdaters < NumThreads
    /\ \A t \in TIDs : pc[t] = "done"

\* The run in progress has a constructed table and has spawned no thread yet.
RunBegins == mainPc = "spawn" /\ constructed = 0

\* C14: the four classes are run one after another in the order Database,
\* SingleMutexDatabase, SharedMutexDatabase, SplitMutexDatabase: the runs
\* before the current one are reported and the later ones are not; a run
\* begins with a fresh table, all cells 0 and all locks free, and with no
\* thread running; and between two runs every thread of the earlier run has
\* ended and is joined, so threads run only inside the current run.
C14_RunsInOrderOnFreshTables ==
    /\ run \in 1 .. Len(Variants)
    /\ \A r \in 1 .. Len(Variants) :
          /\ r < run => verdict[r] \in {"Pass", "FAILED!!!"}
          /\ r > run => verdict[r] = ""
    /\ RunBegins =>
          /\ isAllZero
          /\ mutex_ = NoThread
          /\ shared_mutex_ = SharedMutexFree
          /\ \A m \in 0 .. (NumMutexes - 1) : mutexes_[m] = NoThread
          /\ \A t \in TIDs : pc[t] = "unborn" /\ pass[t] = 0
    /\ (mainPc = "construct" /\ run > 1) =>
          /\ joined = NumThreads
          /\ \A t \in TIDs : pc[t] = "done"
    /\ \A t \in TIDs :
          pc[t] \notin {"unborn", "done"} => mainPc \in {"spawn", "emplace", "join"}

\* The run of SingleMutexDatabase begins on an all-zero table after the run of
\* class Database left a cell that was not zero.
C14_Witness ==
    /\ RunBegins
    /\ run = 2
    /\ verdict[1] = "FAILED!!!"
    /\ isAllZero

\* C15: under the locking classes a cell changes only by the completion of an
\* updateValue(i, delta), which changes cell i by exactly delta, counted from
\* the value the cell has when the update completes, and leaves every other
\* cell as it is; readValue and every other step of a thread or of main change
\* no cell (the construction of the next run's table apart).
C15_OnlyUpdateValueChangesItsCell ==
    [][(DBTYPE # "Database" /\ data_' # data_) =>
          \/ mainPc = "construct"
          \/ \E t \in TIDs :
                /\ IsUpdater(t)
                /\ pc[t] = "store"
                /\ pc'[t] # "store"
                /\ data_' = [data_ EXCEPT ![CurIndex(t)] = @ + CurValue(t)]]_vars

\* An updater is about to complete its update of a cell that another update
\* has already changed, while another updater has called and waits.
C15_Witness ==
    /\ DBTYPE # "Database"
    /\ \E t1, t2 \in TIDs :
          /\ t1 # t2
          /\ IsUpdater(t1) /\ IsUpdater(t2)
          /\ pc[t1] = "store"
          /\ pc[t2] = "call"
          /\ CurIndex(t2) = CurIndex(t1)
          /\ data_[CurIndex(t1)] # 0

\* The sum of the values of the updateValue calls on cell i that thread t has
\* completed: those of its finished passes, and that of the current pass if
\* the pass is past cell i.
Completed(t, i) ==
    IF IsUpdater(t)
    THEN SumDeltas(pass[t]) + (IF i \in Visited(t) THEN CurValue(t) ELSE 0)
    ELSE 0

\* The sum of Completed(t, i) over the threads 0 .. n-1.
RECURSIVE SumCompleted(_, _)
SumCompleted(n, i) == IF n = 0 THEN 0 ELSE Completed(n - 1, i) + SumCompleted(n - 1, i)

\* An updateValue on cell i has loaded the cell and not yet stored it.
UpdateInFlight(i) == \E t \in TIDs : IsUpdater(t) /\ InFlight(t) /\ CurIndex(t) = i

\* C16: under the locking classes every cell equals the sum of the values of
\* all the updateValue calls on it completed so far, whatever the interleaving
\* and the orders of the passes: no update is lost and none is applied twice.
\* It holds in every reachable state, those with no update of the cell in
\* flight included.
C16_CellIsSumOfCompletedUpdates ==
    (DBTYPE # "Database" /\ mainPc \in {"spawn", "emplace", "join", "report"}) =>
        \A i \in Cells : data_[i] = SumCompleted(NumThreads, i)

\* No update of cell i is in flight, two updaters have each completed updates
\* of it, and one is a pass ahead of the other.
C16_Witness ==
    /\ DBTYPE # "Database"
    /\ mainPc = "join"
    /\ \E i \in Cells :
          /\ ~UpdateInFlight(i)
          /\ \E t1, t2 \in TIDs :
                /\ t1 # t2
                /\ Completed(t1, i) = Deltas[1]
                /\ Completed(t2, i) = Deltas[1] + Deltas[2]
          /\ data_[i] = 2 * Deltas[1] + Deltas[2]

\* C17: an updater makes its passes in program order, +25 on all cells, then
\* -40 on all cells, then +15 on all cells.  What it has added to a cell is
\* therefore 0 or +25 during its first pass, +25 or -15 during its second,
\* -15 or 0 during its third, and 0 once it has finished; and with a single
\* updater this is what the cell holds.
C17_UpdaterPassesInProgramOrder ==
    (DBTYPE # "Database" /\ mainPc \in {"spawn", "emplace", "join", "report"}) =>
        \A t \in TIDs : \A i \in Cells :
            IsUpdater(t) =>
                /\ Completed(t, i) \in {0, 25, -15}
                /\ pass[t] = 0 => Completed(t, i) \in {0, 25}
                /\ pass[t] = 1 => Completed(t, i) \in {25, -15}
                /\ pass[t] = 2 => Completed(t, i) \in {-15, 0}
                /\ pc[t] = "done" => (pass[t] = 3 /\ Completed(t, i) = 0)
                /\ nUpdaters = 1 => data_[i] = Completed(t, i)

\* The only updater is in its second pass, between a cell it has brought to
\* -15 and a cell still at +25, while a reader runs.
C17_Witness ==
    /\ DBTYPE # "Database"
    /\ nUpdaters = 1
    /\ pass[0] = 1
    /\ pc[0] = "store"
    /\ \E i, j \in Cells : data_[i] = -15 /\ data_[j] = 25
    /\ \E t \in TIDs : ~IsUpdater(t) /\ InFlight(t)

\* The bound of the first spawn loop in the source.
SourceUpdaters == 100

\* C18: under the locking classes with U updater threads every cell stays
\* within -15 * U .. 25 * U in every reachable state, so the int64 cell does
\* not overflow, and the value readValue returns, the cell converted to int,
\* is the cell's value; for the U = 100 of the source the bounds are -1500 and
\* 2500, which the conversion leaves as they are.
C18_CellsBoundedAndReadExact ==
    /\ (DBTYPE # "Database" /\ mainPc \in {"spawn", "emplace", "join", "report"}) =>
          \A i \in Cells :
              /\ data_[i] >= -15 * nUpdaters
              /\ data_[i] <= 25 * nUpdaters
              /\ data_[i] >= INT_MIN /\ data_[i] <= INT_MAX
              /\ readValue_result(i) = data_[i]
    /\ -15 * SourceUpdaters = -1500 /\ to_int(-15 * SourceUpdaters) = -1500
    /\ 25 * SourceUpdaters = 2500 /\ to_int(25 * SourceUpdaters) = 2500

\* A reader is about to return the value of a cell that is at the lower bound
\* -15 * U while another cell is at the upper bound 25 * U.
C18_Witness ==
    /\ DBTYPE # "Database"
    /\ nUpdaters >= 1
    /\ \E t \in TIDs :
          /\ ~IsUpdater(t)
          /\ InUnderlyingSleep(t)
          /\ data_[CurIndex(t)] = -15 * nUpdaters
          /\ readValue_result(CurIndex(t)) = -15 * nUpdaters
    /\ \E j \in Cells : data_[j] = 25 * nUpdaters

\* The number of locks thread t owns, in either mode.
LocksHeld(t) ==
    (IF mutex_ = t THEN 1 ELSE 0)
    + (IF shared_mutex_.writer = t THEN 1 ELSE 0)
    + (IF t \in shared_mutex_.readers THEN 1 ELSE 0)
    + Cardinality({m \in 0 .. (NumMutexes - 1) : mutexes_[m] = t})

\* C19: a worker thread owns at most one lock at any time, and owns one only
\* while it is inside an underlying call: none during the pause after an
\* operation, none while it waits for a lock, none before it starts a pass and
\* none after it has finished.  Every lock is free or owned by a worker, never
\* by main, and only the locks of the class under test are ever taken.
C19_AtMostOneLockAndNoneOutsideCalls ==
    /\ \A t \in TIDs :
          /\ LocksHeld(t) <= 1
          /\ LocksHeld(t) = 1 => (DBTYPE # "Database" /\ InFlight(t))
          /\ pc[t] \in {"unborn", "begin", "call", "done", "threw"} => LocksHeld(t) = 0
          /\ (DBTYPE # "Database" /\ InFlight(t)) => LocksHeld(t) = 1
    /\ mutex_ \in TIDs \cup {NoThread}
    /\ shared_mutex_.writer \in TIDs \cup {NoThread}
    /\ shared_mutex_.readers \subseteq TIDs
    /\ \A m \in 0 .. (NumMutexes - 1) : mutexes_[m] \in TIDs \cup {NoThread}
    /\ DBTYPE # "SingleMutexDatabase" => mutex_ = NoThread
    /\ DBTYPE # "SharedMutexDatabase" => shared_mutex_ = SharedMutexFree
    /\ DBTYPE # "SplitMutexDatabase" => \A m \in 0 .. (NumMutexes - 1) : mutexes_[m] = NoThread

\* Under SplitMutexDatabase a thread has finished an operation and waits,
\* owning nothing, for the mutex that another thread inside its call owns.
C19_Witness ==
    /\ DBTYPE = "SplitMutexDatabase"
    /\ \E t1, t2 \in TIDs :
          /\ t1 # t2
          /\ InFlight(t1) /\ LocksHeld(t1) = 1
          /\ pc[t2] = "call" /\ pos[t2] > 1 /\ LocksHeld(t2) = 0
          /\ ~ENABLED Enter(t2)

====
